---- MODULE Spec2Model ----
(***************************************************************************)
(* A model of the blocklist tools of GTNO87/fairer:                        *)
(*   scripts/build_blocklist.py  discover vendor subdomains and merge them *)
(*                               into the blocklist file                   *)
(*   scripts/sign_blocklist.py   sign / verify the blocklist (Ed25519)     *)
(*                                                                         *)
(* Text is a sequence of symbols.  A symbol is one character ("a", ".",    *)
(* " ", "#", "\n") or one indivisible word of the fixed texts of the       *)
(* generated section ("DISCOVERED", "generated", a date).  Comment text    *)
(* that the code never tokenises is kept as one symbol per phrase.         *)
(***************************************************************************)
EXTENDS Integers, Sequences, FiniteSets, TLC

VARIABLES
    \* build_blocklist.main
    file,            \* bytes of manipulation-blocklist.txt
    existing_lines,  \* main: existing_lines
    known_domains,   \* main: known_domains
    new_domains,     \* main: new_domains
    output,          \* main: output
    today,           \* datetime.date.today()
    runs,            \* number of invocations of the script so far
    pc,              \* position of main
    \* build_blocklist.discover
    seeds,           \* discover: seeds
    known,           \* discover: known
    workers,         \* discover: workers
    answer,          \* what resolves() does for each host name: "live", "miss", "raise"
    futures,         \* each submitted future: "queued", "running", "done"
    yielded,         \* the futures as_completed has handed to the loop
    found,           \* discover: found
    completed,       \* discover: completed
    result,          \* discover's return value
    dpc,             \* position of discover
    \* build_blocklist.resolves
    has_dnspython,   \* _HAS_DNSPYTHON
    lookup,          \* what the DNS libraries do for this fqdn (the environment)
    rtype_i,         \* _resolves_dnspython: position in ("A", "AAAA", "CNAME")
    live,            \* the value resolves returned
    rpc,             \* position of resolves
    \* sign_blocklist: cmd_sign / cmd_verify
    mode,            \* "sign" (no flag) or "verify" (--verify)
    env_key,         \* os.environ: BLOCKLIST_SIGNING_KEY
    blocklist,       \* BLOCKLIST_FILE as sign_blocklist.py finds it
    sig_file,        \* SIG_FILE
    seed,            \* cmd_sign / cmd_verify: seed
    public_key,      \* cmd_sign / cmd_verify: public_key
    blocklist_bytes, \* cmd_sign / cmd_verify: blocklist_bytes
    signature,       \* cmd_sign / cmd_verify: signature
    lib_fault,       \* the library's sign() gives a signature that does not verify
    crypto_calls,    \* calls of public_key_from_seed, sign and verify so far
    exit_status,     \* "" while running; "ok", "error" (sys.exit(message)), "traceback"
    spc,             \* position of cmd_sign / cmd_verify
    \* sign_blocklist: sign, public_key_from_seed and verify called directly
    h_data,          \* the data that is signed
    h_seed,          \* the seed it is signed with
    v_data,          \* verify: data
    v_signature,     \* verify: signature
    v_public_key,    \* verify: public_key_bytes
    v_return,        \* what verify did: "True", "False", or the exception it raised
    hpc              \* how far the calls have got

mergeVars == <<file, existing_lines, known_domains, new_domains, output, today, runs, pc>>
discoverVars == <<seeds, known, workers, answer, futures, yielded, found, completed, result, dpc>>

resolveVars == <<has_dnspython, lookup, rtype_i, live, rpc>>

signVars == <<mode, env_key, blocklist, sig_file, seed, public_key, blocklist_bytes,
              signature, lib_fault, crypto_calls, exit_status, spc>>

cryptoVars == <<h_data, h_seed, v_data, v_signature, v_public_key, v_return, hpc>>

vars == <<mergeVars, discoverVars, resolveVars, signVars, cryptoVars>>

\* ---------------------------------------------------------------- bounds
MaxDocLines == 3      \* lines of the blocklist document the first run starts from
MaxRuns == 2          \* invocations of build_blocklist.py in one behaviour
MaxSeeds == 2         \* seed domains handed to discover
MaxWorkers == 2       \* --workers

\* ------------------------------------------------------------ text helpers
NL == "\n"
Whitespace == {" ", "\t"}

RECURSIVE LStrip(_)
LStrip(s) == IF s # <<>> /\ Head(s) \in Whitespace THEN LStrip(Tail(s)) ELSE s

RECURSIVE RStrip(_)
RStrip(s) ==
    IF s # <<>> /\ s[Len(s)] \in Whitespace THEN RStrip(SubSeq(s, 1, Len(s) - 1)) ELSE s

\* str.strip()
Strip(s) == RStrip(LStrip(s))

\* str.split()[-1] of a stripped, non-empty line: its last run of non-whitespace
RECURSIVE LastToken(_)
LastToken(s) ==
    IF s = <<>> \/ s[Len(s)] \in Whitespace THEN <<>>
    ELSE Append(LastToken(SubSeq(s, 1, Len(s) - 1)), s[Len(s)])

LowerSym(c) ==
    CASE c = "E" -> "e"
      [] c = "X" -> "x"
      [] c = "P" -> "p"
      [] c = "DISCOVERED" -> "discovered"
      [] c = "DOMAINS" -> "domains"
      [] OTHER -> c

\* str.lower()
Lower(s) == [i \in 1..Len(s) |-> LowerSym(s[i])]

\* sep.join(parts)
RECURSIVE Join(_, _)
Join(parts, sep) ==
    IF parts = <<>> THEN <<>>
    ELSE IF Len(parts) = 1 THEN parts[1]
    ELSE parts[1] \o sep \o Join(Tail(parts), sep)

\* needle in line
Contains(line, needle) ==
    \E i \in 0..(Len(line) - Len(needle)) : SubSeq(line, i + 1, i + Len(needle)) = needle

\* Iterating a text file: the lines, each without its "\n"; a last line
\* need not end in "\n".
RECURSIVE FileLines(_, _)
FileLines(text, cur) ==
    IF text = <<>> THEN (IF cur = <<>> THEN <<>> ELSE <<cur>>)
    ELSE IF Head(text) = NL THEN <<cur>> \o FileLines(Tail(text), <<>>)
    ELSE FileLines(Tail(text), Append(cur, Head(text)))

\* ------------------------------------------------------- parse_blocklist
IsStructural(line) == Strip(line) = <<>> \/ Head(Strip(line)) = "#"

\* parts[-1].lower()
DomainOf(line) == Lower(LastToken(Strip(line)))

\* The loop body of parse_blocklist over the remaining raw lines:
\* acc = [lines |-> ..., known |-> ...]
RECURSIVE ParseLoop(_, _)
ParseLoop(raw, acc) ==
    IF raw = <<>> THEN acc
    ELSE LET line == Head(raw) IN
         IF IsStructural(line)
         THEN ParseLoop(Tail(raw), [acc EXCEPT !.lines = Append(@, line)])
         ELSE IF DomainOf(line) \in acc.known
         THEN ParseLoop(Tail(raw), acc)
         ELSE ParseLoop(Tail(raw), [lines |-> Append(acc.lines, line),
                                    known |-> acc.known \cup {DomainOf(line)}])

\* parse_blocklist without its "if domain in known: continue"
RECURSIVE ParseLoopKeepAll(_, _)
ParseLoopKeepAll(raw, acc) ==
    IF raw = <<>> THEN acc
    ELSE LET line == Head(raw) IN
         IF IsStructural(line)
         THEN ParseLoopKeepAll(Tail(raw), [acc EXCEPT !.lines = Append(@, line)])
         ELSE ParseLoopKeepAll(Tail(raw), [lines |-> Append(acc.lines, line),
                                           known |-> acc.known \cup {DomainOf(line)}])

parse_blocklist_KeepAll(text) ==
    ParseLoopKeepAll(FileLines(text, <<>>), [lines |-> <<>>, known |-> {}])

parse_blocklist(text) == ParseLoop(FileLines(text, <<>>), [lines |-> <<>>, known |-> {}])

\* ---------------------------------------------------------- build_output
MARKER == <<"DISCOVERED", " ", "DOMAINS", " ", "-", " ", "generated">>
RULE == <<"#", " ", "====">>

\* DISCOVERY_HEADER_TEMPLATE.format(date=date)
DISCOVERY_HEADER(date) ==
    <<NL, NL>> \o RULE \o <<NL>>
    \o <<"#", " ">> \o MARKER \o <<" ", date, NL>>
    \o <<"#", NL>>
    \o <<"#", " ", "These entries were found via DNS subdomain enumeration of the seed domains", NL>>
    \o <<"#", " ", "listed in scripts/vendors.txt. Re-run scripts/build_blocklist.py to refresh.", NL>>
    \o RULE \o <<NL>>

FOOTER_LINE == <<"#", " ", "-- End of discovered domains --">>
DISCOVERY_FOOTER == <<NL>> \o FOOTER_LINE \o <<NL>>

\* f"0.0.0.0 {domain}"
EntryLine(domain) == <<"0.0.0.0", " ">> \o domain

\* index (from 1) of the first line holding the marker, 0 when there is none
RECURSIVE FirstMarker(_, _)
FirstMarker(lines, i) ==
    IF i > Len(lines) THEN 0
    ELSE IF Contains(lines[i], MARKER) THEN i
    ELSE FirstMarker(lines, i + 1)

\* "while cutoff > 0 and existing_lines[cutoff - 1].strip() == '': cutoff -= 1"
\* (cutoff counts from 0, as in the source)
RECURSIVE WalkBack(_, _)
WalkBack(lines, cutoff) ==
    IF cutoff > 0 /\ Strip(lines[cutoff]) = <<>> THEN WalkBack(lines, cutoff - 1)
    ELSE cutoff

BaseLines(lines) ==
    LET m == FirstMarker(lines, 1) IN
    IF m = 0 THEN lines ELSE SubSeq(lines, 1, WalkBack(lines, m - 1))

\* build_output that writes the section's header and footer even for no domains
build_output_AlwaysSection(lines, domains, date) ==
    LET parts == <<Join(BaseLines(lines), <<NL>>)>>
                 \o <<DISCOVERY_HEADER(date)>>
                 \o [i \in 1..Len(domains) |-> EntryLine(domains[i])]
                 \o <<DISCOVERY_FOOTER>>
    IN Join(parts, <<NL>>) \o <<NL>>

build_output(lines, domains, date) ==
    LET parts == <<Join(BaseLines(lines), <<NL>>)>>
                 \o (IF domains # <<>>
                     THEN <<DISCOVERY_HEADER(date)>>
                          \o [i \in 1..Len(domains) |-> EntryLine(domains[i])]
                          \o <<DISCOVERY_FOOTER>>
                     ELSE <<>>)
    IN Join(parts, <<NL>>) \o <<NL>>

\* ------------------------------------------------------ build_probe_list
\* A sample of the prefix list that keeps its order and its one repeated
\* prefix ("app" is listed twice in the source).
PREFIXES == << <<"a", "p", "p">>, <<"e">>, <<"a", "p", "p">> >>

\* the seed, then f"{prefix}.{seed}" for every prefix
Expand(sd) == <<sd>> \o [i \in 1..Len(PREFIXES) |-> PREFIXES[i] \o <<".">> \o sd]

RECURSIVE Candidates(_)
Candidates(seedList) == IF seedList = <<>> THEN <<>> ELSE Expand(Head(seedList)) \o Candidates(Tail(seedList))

SeqRange(s) == {s[i] : i \in 1..Len(s)}

\* add(d): append unless seen
RECURSIVE AddAll(_, _)
AddAll(cands, probes) ==
    IF cands = <<>> THEN probes
    ELSE IF Head(cands) \in SeqRange(probes) THEN AddAll(Tail(cands), probes)
    ELSE AddAll(Tail(cands), Append(probes, Head(cands)))

build_probe_list(seedList) == AddAll(Candidates(seedList), <<>>)

\* ----------------------------------------------------------- sorted()
\* Unicode code points of the characters host names are made of
CodePoint(c) ==
    CASE c = "." -> 46
      [] c = "a" -> 97
      [] c = "e" -> 101
      [] c = "p" -> 112
      [] c = "x" -> 120
      [] OTHER -> 0

\* Python's str "<": the first differing character decides, a proper prefix is smaller
RECURSIVE StrLess(_, _)
StrLess(s, t) ==
    IF t = <<>> THEN FALSE
    ELSE IF s = <<>> THEN TRUE
    ELSE IF Head(s) = Head(t) THEN StrLess(Tail(s), Tail(t))
    ELSE CodePoint(Head(s)) < CodePoint(Head(t))

\* insert x into the sorted list s, after the elements that are not greater (stable)
RECURSIVE Insert(_, _)
Insert(x, s) ==
    IF s = <<>> THEN <<x>>
    ELSE IF StrLess(x, Head(s)) THEN <<x>> \o s
    ELSE <<Head(s)>> \o Insert(x, Tail(s))

RECURSIVE InsertAll(_, _)
InsertAll(s, acc) == IF s = <<>> THEN acc ELSE InsertAll(Tail(s), Insert(Head(s), acc))

\* sorted(s)
Sorted(s) == InsertAll(s, <<>>)

\* [p for p in build_probe_list(seeds) if p not in known]
RECURSIVE FilterUnknown(_, _)
FilterUnknown(probes, knownSet) ==
    IF probes = <<>> THEN <<>>
    ELSE IF Head(probes) \in knownSet THEN FilterUnknown(Tail(probes), knownSet)
    ELSE <<Head(probes)>> \o FilterUnknown(Tail(probes), knownSet)

Probes(seedList, knownSet) == FilterUnknown(build_probe_list(seedList), knownSet)

RECURSIVE FilterIn(_, _)
FilterIn(s, keep) ==
    IF s = <<>> THEN <<>>
    ELSE IF Head(s) \in keep THEN <<Head(s)>> \o FilterIn(Tail(s), keep)
    ELSE FilterIn(Tail(s), keep)

\* The return value of discover for the set liveSet of host names the resolver
\* reports live: the probes that are not knownSet, those of them that are live,
\* sorted.  (The worker pool behind it is modelled by the Discover* actions.)
DiscoverResult(seedList, knownSet, liveSet) == Sorted(FilterIn(Probes(seedList, knownSet), liveSet))

\* ------------------------------------------------------------------ main
\* scripts/vendors.txt after parse_vendors: the seed domains
VENDORS == << <<"x">> >>

DATES == {"2026-11-06", "2026-11-07"}
DateLE(d, e) == d = e \/ (d = "2026-11-06" /\ e = "2026-11-07")

\* Lines a blocklist document is made of before the first run
DOC_LINES ==
    { <<>>,                                    \* blank
      <<" ">>,                                 \* whitespace only
      <<"#", " ", "note">>,                    \* comment
      <<"0.0.0.0", " ", "e", ".", "x">>,       \* hosts-file entry
      <<"E", ".", "x">>,                       \* bare entry, upper case
      <<"#", " ">> \o MARKER \o <<" ", "2026-11-05">> }   \* a marker comment

DocTexts(n) == { Join(ls, <<NL>>) \o tail : ls \in [1..n -> DOC_LINES], tail \in {<<>>, <<NL>>} }

\* the blocklist documents a first run may find
DOCUMENTS == UNION { DocTexts(n) : n \in 0..MaxDocLines }

\* discover is not running
IdleDiscover ==
    /\ seeds = <<>> /\ known = {} /\ workers = 1 /\ answer = <<>> /\ futures = <<>>
    /\ yielded = {} /\ found = <<>> /\ completed = 0 /\ result = <<>> /\ dpc = "idle"

\* resolves is not running
IdleResolve ==
    /\ has_dnspython = FALSE /\ lookup = <<>> /\ rtype_i = 0 /\ live = FALSE /\ rpc = "idle"

\* sign_blocklist.py is not running
IdleSign ==
    /\ mode = "idle" /\ env_key = <<>> /\ blocklist = <<>> /\ sig_file = <<>>
    /\ seed = <<>> /\ public_key = <<>> /\ blocklist_bytes = <<>> /\ signature = <<>>
    /\ lib_fault = FALSE /\ crypto_calls = 0 /\ exit_status = "" /\ spc = "idle"

\* the signing functions are not being called
IdleCrypto ==
    /\ h_data = <<>> /\ h_seed = <<>> /\ v_data = <<>> /\ v_signature = <<>>
    /\ v_public_key = <<>> /\ v_return = "" /\ hpc = "idle"

InitMerge ==
    /\ IdleDiscover
    /\ IdleResolve
    /\ IdleSign
    /\ IdleCrypto
    /\ file \in DOCUMENTS
    /\ existing_lines = <<>>
    /\ known_domains = {}
    /\ new_domains = <<>>
    /\ output = <<>>
    /\ today \in DATES
    /\ runs = 1
    /\ pc = "start"

\* existing_lines, known_domains = parse_blocklist(BLOCKLIST_FILE)
MainParse ==
    /\ pc = "start"
    /\ existing_lines' = parse_blocklist(file).lines
    /\ known_domains' = parse_blocklist(file).known
    /\ pc' = "parsed"
    /\ UNCHANGED <<file, new_domains, output, today, runs>>
    /\ UNCHANGED <<discoverVars, resolveVars, signVars, cryptoVars>>

\* new_domains = discover(seeds, known_domains, ...): the resolver's answers
\* are the environment's
MainDiscover ==
    /\ pc = "parsed"
    /\ \E liveSet \in SUBSET SeqRange(build_probe_list(VENDORS)) :
           new_domains' = DiscoverResult(VENDORS, known_domains, liveSet)
    /\ pc' = "discovered"
    /\ UNCHANGED <<file, existing_lines, known_domains, output, today, runs>>
    /\ UNCHANGED <<discoverVars, resolveVars, signVars, cryptoVars>>

\* "if not new_domains: ... return"
MainNothingNew ==
    /\ pc = "discovered"
    /\ new_domains = <<>>
    /\ pc' = "done"
    /\ UNCHANGED <<file, existing_lines, known_domains, new_domains, output, today, runs>>
    /\ UNCHANGED <<discoverVars, resolveVars, signVars, cryptoVars>>

\* output = build_output(existing_lines, new_domains)
MainBuild ==
    /\ pc = "discovered"
    /\ new_domains # <<>>
    /\ output' = build_output(existing_lines, new_domains, today)
    /\ pc' = "built"
    /\ UNCHANGED <<file, existing_lines, known_domains, new_domains, today, runs>>
    /\ UNCHANGED <<discoverVars, resolveVars, signVars, cryptoVars>>

\* "if args.dry_run: ... return"
MainDryRun ==
    /\ pc = "built"
    /\ pc' = "done"
    /\ UNCHANGED <<file, existing_lines, known_domains, new_domains, output, today, runs>>
    /\ UNCHANGED <<discoverVars, resolveVars, signVars, cryptoVars>>

\* BLOCKLIST_FILE.write_text(output)
MainWrite ==
    /\ pc = "built"
    /\ file' = output
    /\ pc' = "done"
    /\ UNCHANGED <<existing_lines, known_domains, new_domains, output, today, runs>>
    /\ UNCHANGED <<discoverVars, resolveVars, signVars, cryptoVars>>

\* the script is run again, the same day or later
MainAgain ==
    /\ pc = "done"
    /\ runs < MaxRuns
    /\ runs' = runs + 1
    /\ \E d \in DATES : DateLE(today, d) /\ today' = d
    /\ existing_lines' = <<>>
    /\ known_domains' = {}
    /\ new_domains' = <<>>
    /\ output' = <<>>
    /\ pc' = "start"
    /\ UNCHANGED file
    /\ UNCHANGED <<discoverVars, resolveVars, signVars, cryptoVars>>

\* build_output called on the parsed lines with a host-name list of the
\* caller's choosing (the function is not only reachable through main)
CallBuildOutput ==
    /\ pc = "parsed"
    /\ \E liveSet \in SUBSET SeqRange(build_probe_list(VENDORS)) :
           /\ new_domains' = DiscoverResult(VENDORS, {}, liveSet)
           /\ output' = build_output(existing_lines, DiscoverResult(VENDORS, {}, liveSet), today)
    /\ pc' = "called"
    /\ UNCHANGED <<file, existing_lines, known_domains, today, runs>>
    /\ UNCHANGED <<discoverVars, resolveVars, signVars, cryptoVars>>

NextMerge ==
    \/ MainParse
    \/ MainDiscover
    \/ MainNothingNew
    \/ MainBuild
    \/ MainDryRun
    \/ MainWrite
    \/ MainAgain
    \/ CallBuildOutput

SpecMerge == InitMerge /\ [][NextMerge]_vars

\* -------------------------------------------------------------- discover
SEED_NAMES == { <<"x">>, <<"e", ".", "x">> }
SeedLists == UNION { [1..n -> SEED_NAMES] : n \in 0..MaxSeeds }
KNOWN_SETS == { {}, {<<"e", ".", "x">>}, {<<"x">>, <<"a", "p", "p", ".", "x">>} }
ANSWERS == {"live", "miss", "raise"}

\* the module is not running main
IdleMerge ==
    /\ file = <<>> /\ existing_lines = <<>> /\ known_domains = {} /\ new_domains = <<>>
    /\ output = <<>> /\ today = "2026-11-06" /\ runs = 1 /\ pc = "idle"

\* discover(seeds, known, workers, timeout, verbose) is called
InitDiscover ==
    /\ IdleMerge
    /\ IdleResolve
    /\ IdleSign
    /\ IdleCrypto
    /\ seeds \in SeedLists
    /\ known \in KNOWN_SETS
    /\ workers \in 1..MaxWorkers
    /\ answer \in [SeqRange(build_probe_list(seeds)) -> ANSWERS]
    /\ futures = <<>>
    /\ yielded = {}
    /\ found = <<>>
    /\ completed = 0
    /\ result = <<>>
    /\ dpc = "call"

Submitted == SeqRange(futures)
Running == { f.fqdn : f \in { g \in Submitted : g.status = "running" } }

\* futures = {pool.submit(resolves, fqdn, timeout): fqdn for fqdn in probes}
DiscoverSubmit ==
    /\ dpc = "call"
    /\ futures' = [i \in 1..Len(Probes(seeds, known)) |->
                      [fqdn |-> Probes(seeds, known)[i], status |-> "queued"]]
    /\ dpc' = "collect"
    /\ UNCHANGED <<seeds, known, workers, answer, yielded, found, completed, result>>
    /\ UNCHANGED <<mergeVars, resolveVars, signVars, cryptoVars>>

\* a free worker thread takes the oldest queued call
WorkerTake ==
    /\ dpc = "collect"
    /\ Cardinality(Running) < workers
    /\ \E i \in 1..Len(futures) :
         /\ futures[i].status = "queued"
         /\ \A j \in 1..(i - 1) : futures[j].status # "queued"
         /\ futures' = [futures EXCEPT ![i].status = "running"]
    /\ UNCHANGED <<seeds, known, workers, answer, yielded, found, completed, result, dpc>>
    /\ UNCHANGED <<mergeVars, resolveVars, signVars, cryptoVars>>

\* a worker's resolves() call ends: it returned or raised
WorkerFinish ==
    /\ dpc = "collect"
    /\ \E i \in 1..Len(futures) :
         /\ futures[i].status = "running"
         /\ futures' = [futures EXCEPT ![i].status = "done"]
    /\ UNCHANGED <<seeds, known, workers, answer, yielded, found, completed, result, dpc>>
    /\ UNCHANGED <<mergeVars, resolveVars, signVars, cryptoVars>>

\* the loop body without its try/except: the exception leaves discover
DiscoverCollect_NoCatch(i) ==
    /\ dpc = "collect"
    /\ futures[i].status = "done"
    /\ futures[i].fqdn \notin yielded
    /\ yielded' = yielded \cup {futures[i].fqdn}
    /\ completed' = completed + 1
    /\ IF answer[futures[i].fqdn] = "raise"
       THEN found' = found /\ dpc' = "raised"
       ELSE /\ found' = IF answer[futures[i].fqdn] = "live"
                        THEN Append(found, futures[i].fqdn) ELSE found
            /\ dpc' = dpc
    /\ UNCHANGED <<seeds, known, workers, answer, futures, result>>
    /\ UNCHANGED <<mergeVars, resolveVars, signVars, cryptoVars>>

\* one pass of "for future in as_completed(futures)": a finished future that
\* was not yet handed out
DiscoverCollect(i) ==
    /\ dpc = "collect"
    /\ futures[i].status = "done"
    /\ futures[i].fqdn \notin yielded
    /\ yielded' = yielded \cup {futures[i].fqdn}
    /\ completed' = completed + 1
    /\ found' = IF answer[futures[i].fqdn] = "live"
                THEN Append(found, futures[i].fqdn) ELSE found
    /\ UNCHANGED <<seeds, known, workers, answer, futures, result, dpc>>
    /\ UNCHANGED <<mergeVars, resolveVars, signVars, cryptoVars>>

\* discover returning found as collected
DiscoverReturn_Unsorted ==
    /\ dpc = "collect"
    /\ yielded = { f.fqdn : f \in Submitted }
    /\ result' = found
    /\ dpc' = "returned"
    /\ UNCHANGED <<seeds, known, workers, answer, futures, yielded, found, completed>>
    /\ UNCHANGED <<mergeVars, resolveVars, signVars, cryptoVars>>

\* as_completed is exhausted, the pool is shut down: return sorted(found)
DiscoverReturn ==
    /\ dpc = "collect"
    /\ yielded = { f.fqdn : f \in Submitted }
    /\ result' = Sorted(found)
    /\ dpc' = "returned"
    /\ UNCHANGED <<seeds, known, workers, answer, futures, yielded, found, completed>>
    /\ UNCHANGED <<mergeVars, resolveVars, signVars, cryptoVars>>

NextDiscover ==
    \/ DiscoverSubmit
    \/ WorkerTake
    \/ WorkerFinish
    \/ \E i \in 1..Len(futures) : DiscoverCollect(i)
    \/ DiscoverReturn

SpecDiscover == InitDiscover /\ [][NextDiscover]_vars


\* -------------------------------------------------------------- resolves
RTYPES == <<"A", "AAAA", "CNAME">>

\* What resolver.resolve(fqdn, rtype) does: an answer, or an exception of
\* dnspython (NXDOMAIN, NoAnswer, or another one: a timeout, no name server
\* that answers, a label of the name that is empty or too long)
DNS_OUTCOMES == {"answer", "NXDOMAIN", "NoAnswer", "Timeout", "LabelTooLong"}

\* What dns.resolver.Resolver() does: it reads the system's resolver
\* configuration and raises NoResolverConfiguration when there is none
DNS_CONSTRUCT == {"ok", "NoResolverConfiguration"}

\* What socket.getaddrinfo(fqdn, None) does: addresses, socket.gaierror, or
\* the UnicodeError of the idna codec for a label that is empty or longer
\* than 63 characters ("a..com")
GAI_OUTCOMES == {"ok", "gaierror", "UnicodeError"}

InitResolve ==
    /\ IdleMerge
    /\ IdleDiscover
    /\ IdleSign
    /\ IdleCrypto
    /\ has_dnspython \in BOOLEAN
    /\ IF has_dnspython
       THEN lookup \in [construct : DNS_CONSTRUCT, rr : [1..Len(RTYPES) -> DNS_OUTCOMES],
                        gai : {"ok"}]
       ELSE lookup \in [construct : {"ok"}, rr : {[i \in 1..Len(RTYPES) |-> "NoAnswer"]},
                        gai : GAI_OUTCOMES]
    /\ rtype_i = 0
    /\ live = FALSE
    /\ rpc = "call"

\* resolves: "if _HAS_DNSPYTHON: return _resolves_dnspython(...)"
ResolvesDispatch ==
    /\ rpc = "call"
    /\ rpc' = IF has_dnspython THEN "dns_construct" ELSE "getaddrinfo"
    /\ UNCHANGED <<has_dnspython, lookup, rtype_i, live>>
    /\ UNCHANGED <<mergeVars, discoverVars, signVars, cryptoVars>>

\* _resolves_dnspython: "resolver = dns.resolver.Resolver()", outside any try
DnsConstruct ==
    /\ rpc = "dns_construct"
    /\ IF lookup.construct = "ok"
       THEN rpc' = "dns_query" /\ rtype_i' = 1
       ELSE rpc' = "raised" /\ rtype_i' = rtype_i
    /\ UNCHANGED <<has_dnspython, lookup, live>>
    /\ UNCHANGED <<mergeVars, discoverVars, signVars, cryptoVars>>

\* one pass of "for rtype in ('A', 'AAAA', 'CNAME')"
DnsQuery ==
    /\ rpc = "dns_query"
    /\ rtype_i <= Len(RTYPES)
    /\ CASE lookup.rr[rtype_i] = "answer" ->
              live' = TRUE /\ rpc' = "returned" /\ rtype_i' = rtype_i
         [] lookup.rr[rtype_i] = "NXDOMAIN" ->
              live' = FALSE /\ rpc' = "returned" /\ rtype_i' = rtype_i
         [] OTHER ->
              live' = live /\ rpc' = rpc /\ rtype_i' = rtype_i + 1
    /\ UNCHANGED <<has_dnspython, lookup>>
    /\ UNCHANGED <<mergeVars, discoverVars, signVars, cryptoVars>>

\* the loop ended without an answer: "return False"
DnsExhausted ==
    /\ rpc = "dns_query"
    /\ rtype_i > Len(RTYPES)
    /\ live' = FALSE
    /\ rpc' = "returned"
    /\ UNCHANGED <<has_dnspython, lookup, rtype_i>>
    /\ UNCHANGED <<mergeVars, discoverVars, signVars, cryptoVars>>

\* _resolves_socket: getaddrinfo under "except socket.gaierror"
SocketLookup ==
    /\ rpc = "getaddrinfo"
    /\ CASE lookup.gai = "ok" -> live' = TRUE /\ rpc' = "returned"
         [] lookup.gai = "gaierror" -> live' = FALSE /\ rpc' = "returned"
         [] OTHER -> live' = live /\ rpc' = "raised"
    /\ UNCHANGED <<has_dnspython, lookup, rtype_i>>
    /\ UNCHANGED <<mergeVars, discoverVars, signVars, cryptoVars>>

NextResolve ==
    \/ ResolvesDispatch
    \/ DnsConstruct
    \/ DnsQuery
    \/ DnsExhausted
    \/ SocketLookup

SpecResolve == InitResolve /\ [][NextResolve]_vars


\* ------------------------------------------------------ bytes and base64
Rep(x, n) == [i \in 1..n |-> x]

B64_ALPHABET ==
    <<"A", "B", "C", "D", "E", "F", "G", "H", "I", "J", "K", "L", "M", "N", "O", "P",
      "Q", "R", "S", "T", "U", "V", "W", "X", "Y", "Z", "a", "b", "c", "d", "e", "f",
      "g", "h", "i", "j", "k", "l", "m", "n", "o", "p", "q", "r", "s", "t", "u", "v",
      "w", "x", "y", "z", "0", "1", "2", "3", "4", "5", "6", "7", "8", "9", "+", "/">>

\* the value of a character of the base64 alphabet, -1 for any other character
B64Value(c) ==
    IF \E i \in 1..Len(B64_ALPHABET) : B64_ALPHABET[i] = c
    THEN (CHOOSE i \in 1..Len(B64_ALPHABET) : B64_ALPHABET[i] = c) - 1
    ELSE -1

B64Char(v) == B64_ALPHABET[v + 1]

\* base64.b64encode(bytes)
RECURSIVE b64encode(_)
b64encode(b) ==
    IF Len(b) >= 3
    THEN LET n == b[1] * 65536 + b[2] * 256 + b[3]
         IN <<B64Char(n \div 262144), B64Char((n \div 4096) % 64),
              B64Char((n \div 64) % 64), B64Char(n % 64)>> \o b64encode(SubSeq(b, 4, Len(b)))
    ELSE IF Len(b) = 2
    THEN LET n == (b[1] * 256 + b[2]) * 4
         IN <<B64Char(n \div 4096), B64Char((n \div 64) % 64), B64Char(n % 64), "=">>
    ELSE IF Len(b) = 1
    THEN <<B64Char((b[1] * 16) \div 64), B64Char((b[1] * 16) % 64), "=", "=">>
    ELSE <<>>

\* the bytes that groups of four (at the end: two or three) characters stand for
RECURSIVE B64Bytes(_)
B64Bytes(d) ==
    IF Len(d) >= 4
    THEN LET n == B64Value(d[1]) * 262144 + B64Value(d[2]) * 4096
                  + B64Value(d[3]) * 64 + B64Value(d[4])
         IN <<n \div 65536, (n \div 256) % 256, n % 256>> \o B64Bytes(SubSeq(d, 5, Len(d)))
    ELSE IF Len(d) = 3
    THEN LET n == (B64Value(d[1]) * 4096 + B64Value(d[2]) * 64 + B64Value(d[3])) \div 4
         IN <<n \div 256, n % 256>>
    ELSE IF Len(d) = 2
    THEN <<(B64Value(d[1]) * 64 + B64Value(d[2])) \div 16>>
    ELSE <<>>

RECURSIVE TakeData(_)
TakeData(t) == IF t = <<>> \/ Head(t) = "=" THEN <<>> ELSE <<Head(t)>> \o TakeData(Tail(t))

\* base64.b64decode(text, validate=True) (CPython 3.11, binascii strict mode):
\* data characters, then only "=": none after no data, exactly two after a
\* last group of two, exactly one after a last group of three, any number
\* after whole groups; a last group of one is an error
b64decode(t) ==
    LET d == TakeData(t)
        pad == SubSeq(t, Len(d) + 1, Len(t))
        valid ==
            /\ \A i \in 1..Len(d) : B64Value(d[i]) >= 0
            /\ \A i \in 1..Len(pad) : pad[i] = "="
            /\ CASE Len(d) = 0 -> Len(pad) = 0
                 [] Len(d) % 4 = 0 -> TRUE
                 [] Len(d) % 4 = 2 -> Len(pad) = 2
                 [] Len(d) % 4 = 3 -> Len(pad) = 1
                 [] OTHER -> FALSE
    IN IF valid THEN [ok |-> TRUE, bytes |-> B64Bytes(d)] ELSE [ok |-> FALSE, bytes |-> <<>>]

\* ------------------------------------------------------------- Ed25519
\* The cryptography library is not part of the repository.  Its Ed25519 is
\* modelled as an ideal signature scheme over byte strings: the public key is
\* an injective image of the seed, a signature is 64 bytes fixed by the
\* public key and the data, and only that signature verifies.
KEY_LEN == 32
SIG_LEN == 64

\* Ed25519PrivateKey.from_private_bytes(seed).public_key().public_bytes(Raw, Raw)
Ed25519Public(sd) == [i \in 1..KEY_LEN |-> (sd[KEY_LEN + 1 - i] + 1) % 256]

\* an injective 32-byte image of the data (at most 31 bytes of them)
Digest(data) == <<Len(data)>> \o data \o Rep(0, KEY_LEN - 1 - Len(data))

\* Ed25519PrivateKey.from_private_bytes(seed).sign(data)
Ed25519Sign(sd, data) == Ed25519Public(sd) \o Digest(data)

\* Ed25519PublicKey.verify(signature, data) does not raise InvalidSignature
Ed25519Verify(pk, sig, data) == Len(sig) = SIG_LEN /\ sig = pk \o Digest(data)

\* sign(data, seed): from_private_bytes raises ValueError for a seed that is
\* not 32 bytes
sign(data, sd) ==
    IF Len(sd) # KEY_LEN THEN [raised |-> "ValueError", value |-> <<>>]
    ELSE [raised |-> "", value |-> Ed25519Sign(sd, data)]

\* public_key_from_seed(seed)
public_key_from_seed(sd) ==
    IF Len(sd) # KEY_LEN THEN [raised |-> "ValueError", value |-> <<>>]
    ELSE [raised |-> "", value |-> Ed25519Public(sd)]

\* verify with the arguments of public_key.verify in the other order
verify_ArgsSwapped(data, sig, public_key_bytes) ==
    IF Len(public_key_bytes) # KEY_LEN THEN [raised |-> "ValueError", value |-> FALSE]
    ELSE [raised |-> "", value |-> Ed25519Verify(public_key_bytes, data, sig)]

\* verify(data, signature, public_key_bytes): from_public_bytes raises
\* ValueError for a key that is not 32 bytes; only InvalidSignature is caught
verify(data, sig, public_key_bytes) ==
    IF Len(public_key_bytes) # KEY_LEN THEN [raised |-> "ValueError", value |-> FALSE]
    ELSE [raised |-> "", value |-> Ed25519Verify(public_key_bytes, sig, data)]

\* ---------------------------------------------------- load_seed_from_env
\* str.strip() of the variable's text: blanks and line ends
EnvStrip(t) ==
    LET ws == {" ", "\n"}
        first == { i \in 1..Len(t) : t[i] \notin ws }
    IN IF first = {} THEN <<>>
       ELSE SubSeq(t, CHOOSE i \in first : \A j \in first : i <= j,
                      CHOOSE i \in first : \A j \in first : j <= i)

\* load_seed_from_env without "if len(seed) != 32"
load_seed_from_env_AnyLength(e) ==
    LET raw == IF e.set THEN EnvStrip(e.text) ELSE <<>> IN
    IF raw = <<>> THEN [exit |-> TRUE, seed |-> <<>>]
    ELSE IF ~b64decode(raw).ok THEN [exit |-> TRUE, seed |-> <<>>]
    ELSE [exit |-> FALSE, seed |-> b64decode(raw).bytes]

\* load_seed_from_env(): the seed, or sys.exit(message)
load_seed_from_env(e) ==
    LET raw == IF e.set THEN EnvStrip(e.text) ELSE <<>> IN
    IF raw = <<>> THEN [exit |-> TRUE, seed |-> <<>>]
    ELSE IF ~b64decode(raw).ok THEN [exit |-> TRUE, seed |-> <<>>]
    ELSE IF Len(b64decode(raw).bytes) # 32 THEN [exit |-> TRUE, seed |-> <<>>]
    ELSE [exit |-> FALSE, seed |-> b64decode(raw).bytes]


\* ------------------------------------------------- cmd_sign / cmd_verify
\* values of BLOCKLIST_SIGNING_KEY
ENV_KEYS ==
    { [set |-> FALSE, text |-> <<>>],
      [set |-> TRUE, text |-> <<>>],
      [set |-> TRUE, text |-> <<" ", "\n">>],
      [set |-> TRUE, text |-> Rep("A", 43) \o <<"=">>],                    \* 32 bytes
      [set |-> TRUE, text |-> <<" ">> \o Rep("B", 43) \o <<"=", "\n">>],   \* 32 bytes
      [set |-> TRUE, text |-> Rep("A", 42) \o <<"=", "=">>],               \* 31 bytes
      [set |-> TRUE, text |-> Rep("A", 44)],                               \* 33 bytes
      [set |-> TRUE, text |-> Rep("A", 22) \o <<"=", "=">>],               \* 16 bytes
      [set |-> TRUE, text |-> Rep("A", 43)],                               \* padding missing
      [set |-> TRUE, text |-> Rep("A", 21) \o <<" ">> \o Rep("A", 22) \o <<"=">>],
      [set |-> TRUE, text |-> Rep("!", 43) \o <<"=">>] }

SEED_A == Rep(0, KEY_LEN)
BYTES_A == <<97, 10>>

BLOCKLISTS ==
    { [exists |-> FALSE, bytes |-> <<>>],
      [exists |-> TRUE, bytes |-> <<>>],
      [exists |-> TRUE, bytes |-> BYTES_A],
      [exists |-> TRUE, bytes |-> <<98, 10>>] }

\* SIG_FILE: its two fields ("algorithm: ...", "signature: <base64>")
SIG_FILES ==
    { [exists |-> FALSE, algorithm |-> "", signature |-> <<>>],
      [exists |-> TRUE, algorithm |-> "ed25519",
       signature |-> b64encode(Ed25519Sign(SEED_A, BYTES_A))],
      [exists |-> TRUE, algorithm |-> "ed25519",
       signature |-> SubSeq(b64encode(Ed25519Sign(SEED_A, BYTES_A)), 1, 87)],
      [exists |-> TRUE, algorithm |-> "rsa",
       signature |-> b64encode(Ed25519Sign(SEED_A, BYTES_A))] }

\* a signature with its last byte changed
Corrupt(sig) == [sig EXCEPT ![Len(sig)] = (@ + 1) % 256]

InitSign ==
    /\ IdleMerge
    /\ IdleDiscover
    /\ IdleResolve
    /\ IdleCrypto
    /\ mode \in {"sign", "verify"}
    /\ env_key \in ENV_KEYS
    /\ blocklist \in BLOCKLISTS
    /\ sig_file \in SIG_FILES
    /\ lib_fault \in BOOLEAN
    /\ seed = <<>>
    /\ public_key = <<>>
    /\ blocklist_bytes = <<>>
    /\ signature = <<>>
    /\ crypto_calls = 0
    /\ exit_status = ""
    /\ spc = "start"

Exit(status) == spc' = "exited" /\ exit_status' = status

\* "if not BLOCKLIST_FILE.exists(): sys.exit(...)", and in cmd_verify
\* "if not SIG_FILE.exists(): sys.exit(...)"
CheckFiles ==
    /\ spc = "start"
    /\ IF ~blocklist.exists \/ (mode = "verify" /\ ~sig_file.exists)
       THEN Exit("error")
       ELSE spc' = "load_seed" /\ exit_status' = exit_status
    /\ UNCHANGED <<mode, env_key, blocklist, sig_file, seed, public_key, blocklist_bytes,
                   signature, lib_fault, crypto_calls>>
    /\ UNCHANGED <<mergeVars, discoverVars, resolveVars, cryptoVars>>

\* seed = load_seed_from_env()
LoadSeed ==
    /\ spc = "load_seed"
    /\ IF load_seed_from_env(env_key).exit
       THEN Exit("error") /\ seed' = seed
       ELSE spc' = "derive" /\ exit_status' = exit_status
            /\ seed' = load_seed_from_env(env_key).seed
    /\ UNCHANGED <<mode, env_key, blocklist, sig_file, public_key, blocklist_bytes,
                   signature, lib_fault, crypto_calls>>
    /\ UNCHANGED <<mergeVars, discoverVars, resolveVars, cryptoVars>>

\* public_key = public_key_from_seed(seed)
DerivePublicKey ==
    /\ spc = "derive"
    /\ crypto_calls' = crypto_calls + 1
    /\ IF public_key_from_seed(seed).raised # ""
       THEN Exit("traceback") /\ public_key' = public_key
       ELSE spc' = "read_blocklist" /\ exit_status' = exit_status
            /\ public_key' = public_key_from_seed(seed).value
    /\ UNCHANGED <<mode, env_key, blocklist, sig_file, seed, blocklist_bytes,
                   signature, lib_fault>>
    /\ UNCHANGED <<mergeVars, discoverVars, resolveVars, cryptoVars>>

\* blocklist_bytes = BLOCKLIST_FILE.read_bytes()
ReadBlocklist ==
    /\ spc = "read_blocklist"
    /\ blocklist_bytes' = blocklist.bytes
    /\ spc' = IF mode = "sign" THEN "sign" ELSE "read_sig"
    /\ UNCHANGED <<mode, env_key, blocklist, sig_file, seed, public_key,
                   signature, lib_fault, crypto_calls, exit_status>>
    /\ UNCHANGED <<mergeVars, discoverVars, resolveVars, cryptoVars>>

\* signature = sign(blocklist_bytes, seed)
Sign ==
    /\ spc = "sign"
    /\ crypto_calls' = crypto_calls + 1
    /\ IF sign(blocklist_bytes, seed).raised # ""
       THEN Exit("traceback") /\ signature' = signature
       ELSE spc' = "self_verify" /\ exit_status' = exit_status
            /\ signature' = IF lib_fault THEN Corrupt(sign(blocklist_bytes, seed).value)
                            ELSE sign(blocklist_bytes, seed).value
    /\ UNCHANGED <<mode, env_key, blocklist, sig_file, seed, public_key, blocklist_bytes,
                   lib_fault>>
    /\ UNCHANGED <<mergeVars, discoverVars, resolveVars, cryptoVars>>

\* cmd_sign going on to write_sig_file whatever verify returned
SelfVerify_Unchecked ==
    /\ spc = "self_verify"
    /\ crypto_calls' = crypto_calls + 1
    /\ IF verify(blocklist_bytes, signature, public_key).raised # ""
       THEN Exit("traceback")
       ELSE spc' = "write_sig" /\ exit_status' = exit_status
    /\ UNCHANGED <<mode, env_key, blocklist, sig_file, seed, public_key, blocklist_bytes,
                   signature, lib_fault>>
    /\ UNCHANGED <<mergeVars, discoverVars, resolveVars, cryptoVars>>

\* "if not verify(blocklist_bytes, signature, public_key): sys.exit(...)"
SelfVerify ==
    /\ spc = "self_verify"
    /\ crypto_calls' = crypto_calls + 1
    /\ IF verify(blocklist_bytes, signature, public_key).raised # ""
       THEN Exit("traceback")
       ELSE IF ~verify(blocklist_bytes, signature, public_key).value
       THEN Exit("error")
       ELSE spc' = "write_sig" /\ exit_status' = exit_status
    /\ UNCHANGED <<mode, env_key, blocklist, sig_file, seed, public_key, blocklist_bytes,
                   signature, lib_fault>>
    /\ UNCHANGED <<mergeVars, discoverVars, resolveVars, cryptoVars>>

\* write_sig_file(SIG_FILE, signature), the report, the end of cmd_sign
WriteSig ==
    /\ spc = "write_sig"
    /\ sig_file' = [exists |-> TRUE, algorithm |-> "ed25519",
                    signature |-> b64encode(signature)]
    /\ Exit("ok")
    /\ UNCHANGED <<mode, env_key, blocklist, seed, public_key, blocklist_bytes,
                   signature, lib_fault, crypto_calls>>
    /\ UNCHANGED <<mergeVars, discoverVars, resolveVars, cryptoVars>>

\* signature = read_sig_file(SIG_FILE): sys.exit for another algorithm, an
\* uncaught binascii.Error for a signature that is not base64.  The decoding
\* here does not validate; on texts of the base64 alphabet, which is what
\* SIG_FILES and write_sig_file hold, it does what b64decode does.
ReadSig ==
    /\ spc = "read_sig"
    /\ IF sig_file.algorithm # "ed25519"
       THEN Exit("error") /\ signature' = signature
       ELSE IF ~b64decode(sig_file.signature).ok
       THEN Exit("traceback") /\ signature' = signature
       ELSE spc' = "verify" /\ exit_status' = exit_status
            /\ signature' = b64decode(sig_file.signature).bytes
    /\ UNCHANGED <<mode, env_key, blocklist, sig_file, seed, public_key, blocklist_bytes,
                   lib_fault, crypto_calls>>
    /\ UNCHANGED <<mergeVars, discoverVars, resolveVars, cryptoVars>>

\* "if verify(blocklist_bytes, signature, public_key): print(valid) else: sys.exit(...)"
Verify ==
    /\ spc = "verify"
    /\ crypto_calls' = crypto_calls + 1
    /\ IF verify(blocklist_bytes, signature, public_key).raised # ""
       THEN Exit("traceback")
       ELSE IF verify(blocklist_bytes, signature, public_key).value
       THEN Exit("ok")
       ELSE Exit("error")
    /\ UNCHANGED <<mode, env_key, blocklist, sig_file, seed, public_key, blocklist_bytes,
                   signature, lib_fault>>
    /\ UNCHANGED <<mergeVars, discoverVars, resolveVars, cryptoVars>>

NextSign ==
    \/ CheckFiles
    \/ LoadSeed
    \/ DerivePublicKey
    \/ ReadBlocklist
    \/ Sign
    \/ SelfVerify
    \/ WriteSig
    \/ ReadSig
    \/ Verify

SpecSign == InitSign /\ [][NextSign]_vars

\* ------------------------------- sign, public_key_from_seed, verify called
SEEDS == { SEED_A, b64decode(Rep("B", 43) \o <<"=">>).bytes }
DATA == { <<>>, <<97>>, BYTES_A }

InitCrypto ==
    /\ IdleMerge
    /\ IdleDiscover
    /\ IdleResolve
    /\ IdleSign
    /\ h_data \in DATA
    /\ h_seed \in SEEDS
    /\ v_data = <<>>
    /\ v_signature = <<>>
    /\ v_public_key = <<>>
    /\ v_return = ""
    /\ hpc = "start"

\* signature = sign(data, seed)
CallSign ==
    /\ hpc = "start"
    /\ v_signature' = sign(h_data, h_seed).value
    /\ v_data' = h_data
    /\ hpc' = "signed"
    /\ UNCHANGED <<h_data, h_seed, v_public_key, v_return>>
    /\ UNCHANGED <<mergeVars, discoverVars, resolveVars, signVars>>

\* public_key_from_seed of the signing seed or of another one
CallPublicKeyFromSeed ==
    /\ hpc = "signed"
    /\ \E s \in SEEDS : v_public_key' = public_key_from_seed(s).value
    /\ hpc' = "keyed"
    /\ UNCHANGED <<h_data, h_seed, v_data, v_signature, v_return>>
    /\ UNCHANGED <<mergeVars, discoverVars, resolveVars, signVars>>

\* one byte of the data is altered
AlterData ==
    /\ hpc = "keyed"
    /\ \E i \in 1..Len(v_data) : v_data' = [v_data EXCEPT ![i] = (@ + 1) % 256]
    /\ hpc' = "altered"
    /\ UNCHANGED <<h_data, h_seed, v_signature, v_public_key, v_return>>
    /\ UNCHANGED <<mergeVars, discoverVars, resolveVars, signVars>>

\* one byte of the signature is altered, or its last byte is cut off
AlterSignature ==
    /\ hpc = "keyed"
    /\ \/ \E i \in {1, KEY_LEN, KEY_LEN + 1, SIG_LEN} :
             v_signature' = [v_signature EXCEPT ![i] = (@ + 1) % 256]
       \/ v_signature' = SubSeq(v_signature, 1, SIG_LEN - 1)
    /\ hpc' = "altered"
    /\ UNCHANGED <<h_data, h_seed, v_data, v_public_key, v_return>>
    /\ UNCHANGED <<mergeVars, discoverVars, resolveVars, signVars>>

\* the public key loses its last byte, or gets one more
AlterPublicKey ==
    /\ hpc = "keyed"
    /\ \/ v_public_key' = SubSeq(v_public_key, 1, KEY_LEN - 1)
       \/ v_public_key' = Append(v_public_key, 0)
    /\ hpc' = "altered"
    /\ UNCHANGED <<h_data, h_seed, v_data, v_signature, v_return>>
    /\ UNCHANGED <<mergeVars, discoverVars, resolveVars, signVars>>

\* verify(data, signature, public_key_bytes)
CallVerify ==
    /\ hpc \in {"keyed", "altered"}
    /\ v_return' = IF verify(v_data, v_signature, v_public_key).raised # ""
                   THEN verify(v_data, v_signature, v_public_key).raised
                   ELSE IF verify(v_data, v_signature, v_public_key).value
                   THEN "True" ELSE "False"
    /\ hpc' = "verified"
    /\ UNCHANGED <<h_data, h_seed, v_data, v_signature, v_public_key>>
    /\ UNCHANGED <<mergeVars, discoverVars, resolveVars, signVars>>

NextCrypto ==
    \/ CallSign
    \/ CallPublicKeyFromSeed
    \/ AlterData
    \/ AlterSignature
    \/ AlterPublicKey
    \/ CallVerify

SpecCrypto == InitCrypto /\ [][NextCrypto]_vars


\* ============================================================ properties
\* ------------------------------------------------------------------- C3
RawLines == FileLines(file, <<>>)

\* the lines parse_blocklist is to keep: every structural line, and a domain
\* line when no earlier domain line has its host name
KeptIndexes(raw) ==
    { i \in 1..Len(raw) :
        \/ IsStructural(raw[i])
        \/ \A j \in 1..(i - 1) : IsStructural(raw[j]) \/ DomainOf(raw[j]) # DomainOf(raw[i]) }

\* the n-th smallest element of the set K of numbers
Nth(K, n) == CHOOSE i \in K : Cardinality({k \in K : k <= i}) = n

Kept(raw) == [n \in 1..Cardinality(KeptIndexes(raw)) |-> raw[Nth(KeptIndexes(raw), n)]]

\* C3: parse_blocklist keeps, for every host name, only the first line in file
\* order that carries it, keeps every blank and comment line verbatim and in
\* order, and returns as known set exactly the host names of the kept domain
\* lines.
C3_FirstOccurrenceWins ==
    pc = "parsed" =>
        /\ existing_lines = Kept(RawLines)
        /\ known_domains =
             { DomainOf(existing_lines[i]) :
                 i \in { k \in 1..Len(existing_lines) : ~IsStructural(existing_lines[k]) } }

\* a file with the same host name on two different-looking lines, a structural
\* line between them, has been parsed
C3_Witness ==
    /\ pc = "parsed"
    /\ \E i, j, k \in 1..Len(RawLines) :
         /\ i < k /\ k < j
         /\ ~IsStructural(RawLines[i]) /\ ~IsStructural(RawLines[j])
         /\ IsStructural(RawLines[k])
         /\ RawLines[i] # RawLines[j]
         /\ DomainOf(RawLines[i]) = DomainOf(RawLines[j])
    /\ Len(existing_lines) = Len(RawLines) - 1

\* ------------------------------------------------------------------- C1
\* The lines of a generated section for `domains` as build_output lays them
\* out after the base lines
SectionLines(domains, date) ==
    FileLines(DISCOVERY_HEADER(date) \o <<NL>>
              \o Join([i \in 1..Len(domains) |-> EntryLine(domains[i])] \o <<DISCOVERY_FOOTER>>, <<NL>>)
              \o <<NL>>, <<>>)

Count(lines, P(_)) == Cardinality({ i \in 1..Len(lines) : P(lines[i]) })
IsMarkerLine(l) == Contains(l, MARKER)
IsFooterLine(l) == l = FOOTER_LINE

\* the parsed document ends in a generated section listing `domains`
EndsInSection(lines, domains) ==
    /\ domains # <<>>
    /\ \E d \in DATES :
         /\ Len(lines) >= Len(SectionLines(domains, d))
         /\ SubSeq(lines, Len(lines) - Len(SectionLines(domains, d)) + 1, Len(lines))
              = SectionLines(domains, d)

BeforeSection(lines, domains) ==
    SubSeq(lines, 1, Len(lines) - Len(SectionLines(domains, today)))

OutputLines == FileLines(output, <<>>)

\* build_output has been called with the list the document's section holds
RemergeCase == pc = "called" /\ EndsInSection(existing_lines, new_domains)

\* C1 (what holds of it): one header, one footer, the section's entries are D
C1_OneHeaderOneFooter ==
    RemergeCase =>
        /\ Count(OutputLines, IsMarkerLine) = 1
        /\ Count(OutputLines, IsFooterLine) = 1
        /\ EndsInSection(OutputLines, new_domains)

\* C1: for a parsed document that already holds a generated section listing D,
\* build_output(existing_lines, D) has exactly one generated section (one
\* header, one footer) whose entries are exactly D, and no line of the earlier
\* section is duplicated or left behind.
C1_NoStaleSection ==
    RemergeCase =>
        /\ Count(OutputLines, IsMarkerLine) = 1
        /\ Count(OutputLines, IsFooterLine) = 1
        /\ OutputLines = BeforeSection(existing_lines, new_domains)
                         \o SectionLines(new_domains, today)

\* ------------------------------------------------------------------- C2
HasDuplicateHost(raw) ==
    \E i, j \in 1..Len(raw) :
        /\ i < j
        /\ ~IsStructural(raw[i]) /\ ~IsStructural(raw[j])
        /\ DomainOf(raw[i]) = DomainOf(raw[j])

\* a document that parse and build_output([]) reproduce
Canonical(text) ==
    /\ text # <<>>
    /\ text[Len(text)] = NL
    /\ ~HasDuplicateHost(FileLines(text, <<>>))
    /\ Count(FileLines(text, <<>>), IsMarkerLine) = 0

\* C2 as stated: merging zero new host names leaves every document
\* byte-identical.
C2_ZeroMergeIdentity == (pc = "called" /\ new_domains = <<>>) => output = file

\* C2 as amended: parse_blocklist then build_output with no new host names
\* gives back the document's bytes exactly when the document is not empty, ends
\* in a newline, names no host twice and has no line with the section marker;
\* and the file changes only in the write of a run that found something new.
C2_ZeroMergeCanonical ==
    [][ /\ (pc' = "called" /\ new_domains' = <<>>) => (output' = file' <=> Canonical(file'))
        /\ file' # file => (pc = "built" /\ new_domains # <<>>) ]_vars

\* the empty merge has been applied to a canonical document with entries
C2_Witness ==
    /\ pc = "called" /\ new_domains = <<>>
    /\ Canonical(file) /\ output = file
    /\ known_domains # {}

\* ------------------------------------------------------------------- C4
\* each seed and each prefix.seed
CandidateSet ==
    { seeds[i] : i \in 1..Len(seeds) }
    \cup { PREFIXES[k] \o <<".">> \o seeds[i] : i \in 1..Len(seeds), k \in 1..Len(PREFIXES) }

LiveUnknown == { c \in CandidateSet : c \notin known /\ answer[c] = "live" }

StrictlySorted(s) == \A i, j \in 1..Len(s) : i < j => StrLess(s[i], s[j])

\* C4: for fixed seeds, known set and resolver answers, discover returns, for
\* every worker count and completion order, the sorted duplicate-free list of
\* exactly the candidates that are not known and that the resolver reports live.
C4_DiscoverDeterministic ==
    dpc = "returned" =>
        /\ SeqRange(result) = LiveUnknown
        /\ StrictlySorted(result)

\* discover returned two or more host names that several workers completed in
\* another order than the sorted one, with a live candidate left out as known
C4_Witness ==
    /\ dpc = "returned"
    /\ workers >= 2
    /\ Len(result) >= 2
    /\ found # result
    /\ \E c \in CandidateSet : c \in known /\ answer[c] = "live"

\* ------------------------------------------------------------------- C5
\* while collecting, a step of the pool or of the loop is possible: a queued
\* call and a free worker, a running call, a finished future not yet handed
\* out, or nothing left to hand out
DiscoverCanProceed ==
    \/ \E i \in 1..Len(futures) : futures[i].status = "queued" /\ Cardinality(Running) < workers
    \/ \E i \in 1..Len(futures) : futures[i].status = "running"
    \/ \E i \in 1..Len(futures) : futures[i].status = "done" /\ futures[i].fqdn \notin yielded
    \/ yielded = { f.fqdn : f \in Submitted }

\* C5: a resolver call that raises never aborts discover: discover goes on
\* until every other candidate has been resolved and collected, returns
\* normally, and returns every candidate that resolved live; the candidates
\* whose call raised are absent from the result.
C5_ErrorsDoNotAbort ==
    /\ dpc # "raised"
    /\ dpc = "collect" => DiscoverCanProceed
    /\ dpc = "returned" =>
         /\ \A i \in 1..Len(futures) :
              futures[i].status = "done" /\ futures[i].fqdn \in yielded
         /\ LiveUnknown \subseteq SeqRange(result)
         /\ \A c \in CandidateSet : answer[c] = "raise" => c \notin SeqRange(result)

\* discover returned a live host name that was collected after a call that raised
C5_Witness ==
    /\ dpc = "returned"
    /\ result # <<>>
    /\ \E i, j \in 1..Len(futures) :
         /\ i < j
         /\ answer[futures[i].fqdn] = "raise"
         /\ answer[futures[j].fqdn] = "live"
         /\ futures[j].fqdn \in SeqRange(result)

\* ------------------------------------------------------------------- C6
\* the lookup found the name: a record type was answered before any NXDOMAIN,
\* or getaddrinfo gave addresses
LookupSucceeded ==
    IF has_dnspython
    THEN \E i \in 1..Len(RTYPES) :
            /\ lookup.rr[i] = "answer"
            /\ \A j \in 1..(i - 1) : lookup.rr[j] \notin {"answer", "NXDOMAIN"}
    ELSE lookup.gai = "ok"

\* C6: resolves never raises to its caller on either backend: a successful
\* lookup returns True and every failure of the lookup returns False.
C6_ResolvesNeverRaises ==
    /\ rpc # "raised"
    /\ rpc = "returned" => (live <=> LookupSucceeded)

\* C6 (what holds of it): when resolves returns, it returns whether the lookup
\* succeeded
C6_ReturnsLookupResult == rpc = "returned" => (live <=> LookupSucceeded)

\* ---------------------------------------------------------------- C7
\* the signature cmd_sign holds verifies under the public key of the same
\* seed over the bytes of the blocklist file
SelfVerifies ==
    /\ blocklist_bytes = blocklist.bytes
    /\ Ed25519Verify(Ed25519Public(seed), signature, blocklist.bytes)

\* C7: in sign mode the signature file is written only when the freshly
\* produced signature verifies against the public key derived from the same
\* seed over the same blocklist bytes, and it is then that signature which is
\* written; when the self-verification does not succeed the process exits
\* with an error and the signature file is left as it was.
C7_WriteOnlyAfterSelfVerify ==
    [][ /\ (sig_file' # sig_file) =>
              /\ mode = "sign" /\ spc = "write_sig" /\ SelfVerifies
              /\ sig_file'.signature = b64encode(signature)
        /\ (mode = "sign" /\ spc = "write_sig") => SelfVerifies
        /\ (mode = "sign" /\ spc = "self_verify" /\ ~SelfVerifies) =>
              /\ spc' = "exited" /\ exit_status' \in {"error", "traceback"}
              /\ sig_file' = sig_file
        /\ (spc = "exited") => (sig_file' = sig_file) ]_vars

\* a failed self-verification: cmd_sign has exited with an error, holding a
\* signature that does not verify
C7_Witness ==
    /\ mode = "sign" /\ spc = "exited" /\ exit_status = "error"
    /\ Len(signature) = SIG_LEN /\ ~SelfVerifies

\* ---------------------------------------------------------------- C9
\* BLOCKLIST_SIGNING_KEY is set, is valid base64, and decodes to 32 bytes
UsableKey(e) ==
    /\ e.set
    /\ b64decode(EnvStrip(e.text)).ok
    /\ Len(b64decode(EnvStrip(e.text)).bytes) = KEY_LEN

\* C9: when BLOCKLIST_SIGNING_KEY is unset, is not valid base64, or decodes to
\* a length other than 32 bytes, the process exits with an error before any
\* cryptographic operation is attempted, and the signature file is not written.
C9_BadKeyExitsBeforeCrypto ==
    [][ ~UsableKey(env_key) =>
          /\ crypto_calls' = 0
          /\ sig_file' = sig_file
          /\ (spc = "load_seed") => (spc' = "exited" /\ exit_status' = "error")
          /\ spc' \in {"start", "load_seed", "exited"} ]_vars

\* a key that is valid base64 of the wrong length has made the process exit
C9_Witness ==
    /\ spc = "exited" /\ exit_status = "error" /\ blocklist.exists
    /\ (mode = "verify" => sig_file.exists)
    /\ env_key.set /\ b64decode(EnvStrip(env_key.text)).ok
    /\ Len(b64decode(EnvStrip(env_key.text)).bytes) \in {KEY_LEN - 1, KEY_LEN + 1}
    /\ crypto_calls = 0

\* ---------------------------------------------------------------- C8
\* C8: verify returns True or False and raises nothing; a signature or a
\* public key of the wrong length makes it return False.
C8_VerifyNeverRaises ==
    (hpc = "verified") =>
        /\ v_return \in {"True", "False"}
        /\ (Len(v_signature) # SIG_LEN \/ Len(v_public_key) # KEY_LEN) => (v_return = "False")

\* what holds of the code: wrong-length signatures are answered with False
C8_ShortSignatureFalse ==
    (hpc = "verified" /\ Len(v_public_key) = KEY_LEN /\ Len(v_signature) # SIG_LEN)
        => (v_return = "False")

\* ---------------------------------------------------------------- C10
\* data, signature and public key are the ones of one sign call
Untampered ==
    /\ v_data = h_data
    /\ v_signature = Ed25519Sign(h_seed, h_data)
    /\ v_public_key = Ed25519Public(h_seed)

\* C10: verify(B, sign(B, S), public_key_from_seed(S)) is True, and verify is
\* False when a byte of B or of the signature is altered or when the public
\* key is the one of a different seed.
C10_RoundTrip ==
    (hpc = "verified" /\ Len(v_public_key) = KEY_LEN) =>
        (v_return = IF Untampered THEN "True" ELSE "False")

\* the round trip over non-empty data has been verified
C10_Witness ==
    /\ hpc = "verified" /\ Untampered /\ h_data # <<>> /\ v_return = "True"

\* an altered byte of the data has been refused
C10_TamperSeen ==
    /\ hpc = "verified" /\ v_data # h_data /\ v_return = "False"

\* ---------------------------------------------------------------- C11
\* the host names parse_blocklist finds in a text
HostNames(text) == parse_blocklist(text).known

\* the host names of the lines in front of the generated section
BaseHostNames(lines) ==
    { DomainOf(BaseLines(lines)[i]) :
        i \in { j \in 1..Len(BaseLines(lines)) : ~IsStructural(BaseLines(lines)[j]) } }

\* C11: across any sequence of discover-and-merge runs the set of host names
\* in the blocklist file never shrinks: every host name parse_blocklist finds
\* in the file before a run, those of an earlier generated section included,
\* is still in the file after the run.
C11_HostNamesNeverShrink ==
    [][ HostNames(file) \subseteq HostNames(file') ]_vars

\* what holds of the code: a run keeps the host names in front of the
\* generated section and adds the ones it discovered
C11_BaseHostNamesKept ==
    [][ (file' # file) =>
           /\ BaseHostNames(existing_lines) \subseteq HostNames(file')
           /\ SeqRange(new_domains) \subseteq HostNames(file') ]_vars

\* a second run has replaced the section an earlier run wrote, and a host
\* name of that section is gone
C11_SectionHostLost ==
    /\ runs = 2 /\ pc = "done" /\ file = output
    /\ \E h \in known_domains : h \notin HostNames(file)
    /\ FirstMarker(existing_lines, 1) > 0

\* ---------------------------------------------------------------- C12
\* build_output applied to the parsed lines of its own output, with the same
\* host names on the same date
Rewritten == build_output(parse_blocklist(output).lines, new_domains, today)

\* C12: replacing a generated section does not grow the rest of the document:
\* for a file build_output wrote, the lines in front of the new section's
\* header block are the lines that were in front of the old one, and writing,
\* re-parsing and writing again with the same host names on the same date
\* gives the same bytes.
C12_RewriteSameBytes ==
    (pc = "built") =>
        /\ BaseLines(parse_blocklist(output).lines) = BaseLines(existing_lines)
        /\ Rewritten = output

\* what holds of the code: each rewrite leaves the old header's two blank
\* lines and its rule line (and, for an empty base, one blank line more) in
\* front of the new section
C12_RewriteGrows ==
    (pc = "built") =>
        LET base == BaseLines(existing_lines)
            again == BaseLines(parse_blocklist(output).lines)
        IN /\ Len(again) \in {Len(base) + 3, Len(base) + 4}
           /\ SubSeq(again, 1, Len(base)) = base
           /\ SubSeq(again, Len(again) - 2, Len(again)) = << <<>>, <<>>, RULE >>
           /\ Len(FileLines(Rewritten, <<>>)) = Len(OutputLines) + 3

====
